---- MODULE Spec2Model ----
(***************************************************************************)
(* Model of src/main.py: the open-interest monitor.  One run of main()     *)
(* loads the prior baseline, walks the watchlist, fetches every option     *)
(* chain with bounded retries, reconciles each row against the baseline,   *)
(* posts one aggregated alert and overwrites the baseline file.            *)
(*                                                                         *)
(* The external collaborators (clock, yfinance, the Discord webhook, the   *)
(* file system) are the nondeterministic inputs of the actions.            *)
(***************************************************************************)
EXTENDS Integers, Sequences, FiniteSets, TLC

\* ------------------------------------------------------------------------
\* Bounds of the model
\* ------------------------------------------------------------------------
\* how many symbols of the watchlist a run walks
NumTickers == 2
\* how many expiration dates the upstream can list for a ticker
MaxExpirations == 2
\* how many rows the upstream returns on one side (calls / puts) of a chain
MaxSideRows == 2
\* how many rows the upstream returns altogether, over all runs
MaxRows == 2
\* how many days the script is run, once a day
MaxDays == 2
\* the largest max_retries argument the retry wrapper is called with on its own
MaxRetriesArg == 4
\* how many records the baseline holds when the row loop is studied on its own
MaxPrior == 2

\* ------------------------------------------------------------------------
\* Configuration (src/main.py:21-36)
\* ------------------------------------------------------------------------
TICKERS ==
    SubSeq(<<"INTC", "AAPL", "AMD", "SPY", "NVDA", "QQQ", "LMT", "TSLA",
             "PLTR", "MSFT", "GOOGL">>, 1, NumTickers)

PERCENT_CHANGE_THRESHOLD == 100
ABS_CHANGE_THRESHOLD == 2000
MAX_FETCH_RETRIES == 3
RETRY_DELAY_SECONDS == 2

\* ------------------------------------------------------------------------
\* Values the external collaborators can produce
\* ------------------------------------------------------------------------
\* expiration dates, as the position of the date in the upstream's calendar
ExpiryDates == 1..MaxExpirations
OIValues == {0, 1500, 3000, 5000}
OptionTypes == {"CALL", "PUT"}

\* the rows of opt_chain.calls / opt_chain.puts the upstream serves while
\* whole runs are explored: one strike, an open interest below and one above
\* ABS_CHANGE_THRESHOLD
ServedRows == [strike : {150}, openInterest : {1500, 3000}]

RECURSIVE SeqsUpTo(_, _)
SeqsUpTo(S, n) ==
    IF n = 0 THEN {<<>>}
    ELSE LET shorter == SeqsUpTo(S, n - 1)
         IN  shorter \cup {Append(s, x) : s \in {t \in shorter : Len(t) = n - 1}, x \in S}

\* tk.options: a tuple of dates in calendar order, the nearest ones first
ExpirationLists == {[i \in 1..n |-> i] : n \in 0..MaxExpirations}

\* the value fetch_option_chain_with_retry returns when every attempt failed
None == [ok |-> FALSE, calls |-> <<>>, puts |-> <<>>]

\* the chains whose calls and puts are rows of the set rows
ChainsOf(rows) ==
    {[ok |-> TRUE, calls |-> c, puts |-> p] :
        c \in SeqsUpTo(rows, MaxSideRows),
        p \in SeqsUpTo(rows, MaxSideRows)}

\* ticker_obj.option_chain(expiry): the calls and the puts of one expiration
OptionChains == ChainsOf(ServedRows)

\* the exceptions option_chain raises: one that the first except clause of the
\* wrapper names (Timeout, ConnectionError), and one that only the second does
FetchErrors == {"ConnectionError", "Exception"}
NetworkErrors == {"Timeout", "ConnectionError"}

\* what requests.post can do: answer with a status, or raise
PostOutcomes == {"204", "429", "Timeout", "ConnectionError", "RequestException"}

\* ------------------------------------------------------------------------
\* The baseline file and its CSV form (src/main.py:42-59)
\* ------------------------------------------------------------------------
Columns == <<"date", "ticker", "expiration", "strike", "type", "openInterest">>

\* pd.DataFrame(columns=[...]): the empty table of load_previous_oi
EmptyFrame == <<>>

\* pd.DataFrame(current_oi_records, columns=[...]): one row per dict, the
\* named columns only
DataFrame(records) ==
    [i \in 1..Len(records) |-> [c \in {Columns[k] : k \in 1..Len(Columns)} |-> records[i][c]]]

\* df.to_csv(filename, index=False): a header line, then one line of six
\* fields per row, in column order
to_csv(df) ==
    [exists |-> TRUE,
     header |-> Columns,
     lines  |-> [i \in 1..Len(df) |-> [k \in 1..Len(Columns) |-> df[i][Columns[k]]]]]

\* no file at HISTORICAL_OI_FILE
NoFile == [exists |-> FALSE, header |-> <<>>, lines |-> <<>>]

\* a file of zero bytes: created or truncated, nothing written
ZeroBytes == [exists |-> TRUE, header |-> <<>>, lines |-> <<>>]

\* pd.read_csv raises (EmptyDataError) on a file without a header line
ReadCsvRaises(f) == f.header = <<>>

\* pd.read_csv(filename): the columns are named by the header line
read_csv(f) ==
    [i \in 1..Len(f.lines) |->
        [c \in {f.header[k] : k \in 1..Len(f.header)} |->
            f.lines[i][CHOOSE k \in 1..Len(f.header) : f.header[k] = c]]]

\* load_previous_oi, when it returns
load_previous_oi(f) == IF f.exists THEN read_csv(f) ELSE EmptyFrame

\* ------------------------------------------------------------------------
\* Reconciliation of one row (src/main.py:141-194)
\* ------------------------------------------------------------------------
\* (mutant) pd.concat([puts, calls])
AllOptsPutsFirst(chain, ticker, expiry) ==
    [i \in 1..(Len(chain.calls) + Len(chain.puts)) |->
        LET isPut == i <= Len(chain.puts)
            r == IF isPut THEN chain.puts[i] ELSE chain.calls[i - Len(chain.puts)]
        IN  [strike |-> r.strike, openInterest |-> r.openInterest,
             type |-> IF isPut THEN "PUT" ELSE "CALL",
             ticker |-> ticker, expiration |-> expiry]]

\* pd.concat([calls, puts]) with the type, ticker and expiration columns
AllOpts(chain, ticker, expiry) ==
    [i \in 1..(Len(chain.calls) + Len(chain.puts)) |->
        LET isCall == i <= Len(chain.calls)
            r == IF isCall THEN chain.calls[i] ELSE chain.puts[i - Len(chain.calls)]
        IN  [strike |-> r.strike, openInterest |-> r.openInterest,
             type |-> IF isCall THEN "CALL" ELSE "PUT",
             ticker |-> ticker, expiration |-> expiry]]

\* prev_oi_df[mask]: the rows of the baseline with the row's composite key
MatchingRows(prev, ticker, expiry, strike, opt_type) ==
    SelectSeq(prev, LAMBDA r : /\ r.ticker = ticker
                               /\ r.expiration = expiry
                               /\ r.strike = strike
                               /\ r.type = opt_type)

\* (mutant) matching_rows.iloc[-1]["openInterest"], or 0
OiYesterdayLast(prev, ticker, expiry, strike, opt_type) ==
    LET matching_rows == MatchingRows(prev, ticker, expiry, strike, opt_type)
    IN  IF matching_rows # <<>> THEN matching_rows[Len(matching_rows)].openInterest ELSE 0

\* matching_rows.iloc[0]["openInterest"], or 0
OiYesterday(prev, ticker, expiry, strike, opt_type) ==
    LET matching_rows == MatchingRows(prev, ticker, expiry, strike, opt_type)
    IN  IF matching_rows # <<>> THEN matching_rows[1].openInterest ELSE 0

\* pct_change is float('inf'), or the quotient num / den with den > 0
Infinite == [inf |-> TRUE, num |-> 1, den |-> 0]
Quotient(n, d) == [inf |-> FALSE, num |-> n, den |-> d]

PctChange(oi_today, oi_yesterday) ==
    IF oi_yesterday = 0
    THEN IF oi_today > 0 THEN Infinite ELSE Quotient(0, 1)
    ELSE Quotient((oi_today - oi_yesterday) * 100, oi_yesterday)

\* pct_change >= threshold (float('inf') compares above every number); for a
\* quotient, num / den >= threshold is decided as num >= threshold * den
PctAtLeast(pct_change, threshold) ==
    IF pct_change.inf THEN TRUE ELSE pct_change.num >= threshold * pct_change.den

\* (mutant) the absolute rule needs more than the threshold
MeetsAbsThresholdStrict(abs_change) == abs_change > ABS_CHANGE_THRESHOLD

\* line 179
MeetsAbsThreshold(abs_change) == abs_change >= ABS_CHANGE_THRESHOLD

\* (mutant) the percentage rule without its guard on a zero baseline
MeetsPctThresholdUnguarded(oi_yesterday, pct_change) ==
    PctAtLeast(pct_change, PERCENT_CHANGE_THRESHOLD)

\* line 180
MeetsPctThreshold(oi_yesterday, pct_change) ==
    (oi_yesterday # 0) /\ PctAtLeast(pct_change, PERCENT_CHANGE_THRESHOLD)

\* (mutant) the size of the change, whatever its direction
AbsChangeMagnitude(oi_today, oi_yesterday) ==
    IF oi_today >= oi_yesterday THEN oi_today - oi_yesterday ELSE oi_yesterday - oi_today

\* line 170
AbsChange(oi_today, oi_yesterday) == oi_today - oi_yesterday

\* the local variables of one pass of the row loop
RowLocals(prev, ticker, expiry, row) ==
    LET oi_today == row.openInterest
        oi_yesterday == OiYesterday(prev, ticker, expiry, row.strike, row.type)
        abs_change == AbsChange(oi_today, oi_yesterday)
        pct_change == PctChange(oi_today, oi_yesterday)
    IN  [strike |-> row.strike, opt_type |-> row.type, oi_today |-> oi_today,
         oi_yesterday |-> oi_yesterday, abs_change |-> abs_change,
         pct_change |-> pct_change,
         meets_abs_threshold |-> MeetsAbsThreshold(abs_change),
         meets_pct_threshold |-> MeetsPctThreshold(oi_yesterday, pct_change)]

NoLocals ==
    [strike |-> 0, opt_type |-> "", oi_today |-> 0, oi_yesterday |-> 0,
     abs_change |-> 0, pct_change |-> Quotient(0, 1),
     meets_abs_threshold |-> FALSE, meets_pct_threshold |-> FALSE]

\* the dict appended to current_oi_records
OiRecord(date, ticker, expiry, l) ==
    [date |-> date, ticker |-> ticker, expiration |-> expiry, strike |-> l.strike,
     type |-> l.opt_type, openInterest |-> l.oi_today]

\* the alert line, by its fields; pct_display is the infinity sign or the
\* percentage (its rounding to one decimal is not modelled)
AlertLine(date, ticker, expiry, l) ==
    [ticker |-> ticker, date |-> date, expiration |-> expiry, type |-> l.opt_type,
     strike |-> l.strike, oi_yesterday |-> l.oi_yesterday, oi_today |-> l.oi_today,
     abs_change |-> l.abs_change,
     pct_display |-> IF l.oi_yesterday = 0 /\ l.oi_today > 0 THEN Infinite ELSE l.pct_change]

\* alert_lines after the row: one line more when either rule fires
AlertsAfter(alerts, date, ticker, expiry, l) ==
    IF l.meets_abs_threshold \/ l.meets_pct_threshold
    THEN Append(alerts, AlertLine(date, ticker, expiry, l))
    ELSE alerts

\* (mutant) a message of the last alert line only
AlertMessageLast(alerts) ==
    [title |-> "UNUSUAL OI DETECTED:", lines |-> SubSeq(alerts, Len(alerts), Len(alerts))]

\* line 201: "UNUSUAL OI DETECTED:\n" + "\n\n".join(alert_lines)
AlertMessage(alerts) == [title |-> "UNUSUAL OI DETECTED:", lines |-> alerts]

\* ------------------------------------------------------------------------
\* State
\* ------------------------------------------------------------------------
VARIABLES
    clock,               \* the calendar day datetime.now() shows
    file,                \* the file at HISTORICAL_OI_FILE
    pc,                  \* where the process is
    error,               \* the exception that ended the process, or "none"
    current_date,        \* main: current_date
    prev_oi_df,          \* main: prev_oi_df
    current_oi_records,  \* main: current_oi_records
    alert_lines,         \* main: alert_lines
    ticker_i,            \* main: position of the ticker loop in TICKERS
    expirations,         \* main: expirations
    expiry_i,            \* main: position of the expiry loop in expirations
    opt_chain,           \* main: opt_chain
    all_opts,            \* main: all_opts
    idx,                 \* main: rows of all_opts already iterated
    row_locals,          \* main: the locals of the row loop
    current_oi_df,       \* main: current_oi_df
    max_retries,         \* fetch_option_chain_with_retry: max_retries
    attempt,             \* fetch_option_chain_with_retry: attempt
    chain_calls,         \* outcomes of the option_chain calls of this invocation
    sleep_calls,         \* number of time.sleep calls of this invocation
    options_calls,       \* the tk.options reads of this run, with their outcome
    fetch_calls,         \* the invocations of the retry wrapper in this run
    posts,               \* the requests.post calls of this run
    rows_served,         \* rows the upstream has returned so far, over all runs
    prev_run             \* the run of the day before: whether it got to the end of
                         \* main, and the frame it saved then

vars ==
    <<clock, file, pc, error, current_date, prev_oi_df, current_oi_records,
      alert_lines, ticker_i, expirations, expiry_i, opt_chain, all_opts, idx,
      row_locals, current_oi_df, max_retries, attempt, chain_calls, sleep_calls,
      options_calls, fetch_calls, posts, rows_served, prev_run>>

\* the variables of main, from the baseline to the row loop
mainVars ==
    <<current_date, prev_oi_df, current_oi_records, alert_lines, ticker_i,
      expirations, expiry_i, opt_chain, all_opts, idx, row_locals, current_oi_df>>

\* the variables of one invocation of the retry wrapper
fetchVars == <<max_retries, attempt, chain_calls, sleep_calls>>

\* what is known of the run of the day before: nothing (there was none, or it
\* ended early), or the frame it saved
NoRun == [completed |-> FALSE, snapshot |-> <<>>]
RunCompleted(df) == [completed |-> TRUE, snapshot |-> df]

\* a process that has not run main yet
Fresh ==
    /\ pc = "start"
    /\ error = "none"
    /\ current_date = 0
    /\ prev_oi_df = <<>>
    /\ current_oi_records = <<>>
    /\ alert_lines = <<>>
    /\ ticker_i = 1
    /\ expirations = <<>>
    /\ expiry_i = 1
    /\ opt_chain = None
    /\ all_opts = <<>>
    /\ idx = 0
    /\ row_locals = NoLocals
    /\ current_oi_df = <<>>
    /\ max_retries = MAX_FETCH_RETRIES
    /\ attempt = 1
    /\ chain_calls = <<>>
    /\ sleep_calls = 0
    /\ options_calls = <<>>
    /\ fetch_calls = <<>>
    /\ posts = <<>>

\* the first run: no baseline file yet
Init ==
    /\ clock = 1
    /\ file = NoFile
    /\ rows_served = 0
    /\ prev_run = NoRun
    /\ Fresh

\* ------------------------------------------------------------------------
\* The retry wrapper (src/main.py:78-95)
\* ------------------------------------------------------------------------
\* a call of fetch_option_chain_with_retry from main: a new frame
EnterFetch ==
    /\ max_retries' = MAX_FETCH_RETRIES
    /\ attempt' = 1
    /\ chain_calls' = <<>>
    /\ sleep_calls' = 0

\* (mutant) only the network errors are caught
RetryableNetworkOnly(e) == e \in NetworkErrors

\* the except clauses of the wrapper (lines 87-90): the exceptions an attempt
\* survives; the second clause catches every Exception
Retryable(e) == e \in NetworkErrors \/ e \in FetchErrors

\* (mutant) a delay after the last attempt too
SleepsAfterEvery(a, n) == a <= n

\* line 91: a delay follows the failed attempt
SleepsAfter(a, n) == a < n

\* line 83: range(1, max_retries + 1) holds a value after a
InRange(a, n) == a + 1 <= n

\* what one call of option_chain did: the chain it returned, or what it raised
Returned(chain) == [raised |-> "none", chain |-> chain]
Raised(e) == [raised |-> e, chain |-> None]

\* line 85-86: option_chain answers, the wrapper returns the chain at once
AttemptOk(chain) ==
    /\ pc = "attempt"
    /\ chain \in OptionChains
    /\ rows_served + Len(chain.calls) + Len(chain.puts) <= MaxRows
    /\ rows_served' = rows_served + Len(chain.calls) + Len(chain.puts)
    /\ chain_calls' = Append(chain_calls, Returned(chain))
    /\ opt_chain' = chain
    /\ pc' = "returned"
    /\ UNCHANGED <<clock, file, error, current_date, prev_oi_df, current_oi_records,
                   alert_lines, ticker_i, expirations, expiry_i, all_opts, idx,
                   row_locals, current_oi_df, max_retries, attempt, sleep_calls,
                   options_calls, fetch_calls, posts, prev_run>>

\* lines 83, 94-95: the next pass of the for loop, or "return None" after it
LoopOn ==
    IF InRange(attempt, max_retries)
    THEN attempt' = attempt + 1 /\ pc' = "attempt" /\ UNCHANGED opt_chain
    ELSE pc' = "returned" /\ opt_chain' = None /\ UNCHANGED attempt

\* lines 87-92: option_chain raises; the failure is logged
AttemptFail(e) ==
    /\ pc = "attempt"
    /\ e \in FetchErrors
    /\ chain_calls' = Append(chain_calls, Raised(e))
    /\ IF ~Retryable(e)
       THEN /\ pc' = "failed"
            /\ error' = e
            /\ UNCHANGED <<opt_chain, attempt>>
       ELSE /\ UNCHANGED error
            /\ IF SleepsAfter(attempt, max_retries)
               THEN pc' = "sleep" /\ UNCHANGED <<opt_chain, attempt>>
               ELSE LoopOn
    /\ UNCHANGED <<clock, file, current_date, prev_oi_df, current_oi_records,
                   alert_lines, ticker_i, expirations, expiry_i, all_opts, idx,
                   row_locals, current_oi_df, max_retries, sleep_calls,
                   options_calls, fetch_calls, posts, rows_served, prev_run>>

\* line 93: time.sleep(delay), then on with the loop
Sleep ==
    /\ pc = "sleep"
    /\ sleep_calls' = sleep_calls + 1
    /\ LoopOn
    /\ UNCHANGED <<clock, file, error, current_date, prev_oi_df, current_oi_records,
                   alert_lines, ticker_i, expirations, expiry_i, all_opts, idx,
                   row_locals, current_oi_df, max_retries, chain_calls,
                   options_calls, fetch_calls, posts, rows_served, prev_run>>

\* ------------------------------------------------------------------------
\* main (src/main.py:101-208)
\* ------------------------------------------------------------------------
ticker == TICKERS[ticker_i]
expiry == expirations[expiry_i]

\* the loops of main: on to expiration number ei of the list exps of ticker
\* number ti, or, when the list is exhausted, to the next ticker
GoToExpiry(exps, ei, ti) ==
    /\ EnterFetch
    /\ expiry_i' = ei
    /\ IF ei <= Len(exps)
       THEN pc' = "attempt" /\ ticker_i' = ti
       ELSE pc' = "ticker" /\ ticker_i' = ti + 1

\* lines 102-111: the date, the baseline, the empty accumulators
LoadBaseline ==
    /\ pc = "start"
    /\ current_date' = clock
    /\ IF file.exists /\ ReadCsvRaises(file)
       THEN /\ pc' = "failed"
            /\ error' = "EmptyDataError"
            /\ UNCHANGED prev_oi_df
       ELSE /\ prev_oi_df' = load_previous_oi(file)
            /\ pc' = "ticker"
            /\ UNCHANGED error
    /\ UNCHANGED <<clock, file, current_oi_records, alert_lines, ticker_i,
                   expirations, expiry_i, opt_chain, all_opts, idx, row_locals,
                   current_oi_df, fetchVars, options_calls, fetch_calls, posts, rows_served, prev_run>>

\* line 118: tk.options answers with the expirations of the ticker
OptionsOk(exps) ==
    /\ pc = "ticker"
    /\ ticker_i <= Len(TICKERS)
    /\ exps \in ExpirationLists
    /\ expirations' = exps
    /\ options_calls' = Append(options_calls, [ticker |-> ticker, ok |-> TRUE, expirations |-> exps])
    /\ GoToExpiry(exps, 1, ticker_i)
    /\ UNCHANGED <<clock, file, error, current_date, prev_oi_df, current_oi_records,
                   alert_lines, opt_chain, all_opts, idx, row_locals, current_oi_df,
                   fetch_calls, posts, rows_served, prev_run>>

\* (mutant) "break": the rest of the watchlist is dropped
AfterOptionsFailBreak(ti) == [pc |-> "ticker", ticker_i |-> Len(TICKERS) + 1, error |-> "none"]

\* lines 119-121, "continue": the ticker loop goes on with the next ticker
AfterOptionsFail(ti) == [pc |-> "ticker", ticker_i |-> ti + 1, error |-> "none"]

\* lines 119-121: tk.options raises
OptionsFail ==
    /\ pc = "ticker"
    /\ ticker_i <= Len(TICKERS)
    /\ options_calls' = Append(options_calls, [ticker |-> ticker, ok |-> FALSE, expirations |-> <<>>])
    /\ pc' = AfterOptionsFail(ticker_i).pc
    /\ ticker_i' = AfterOptionsFail(ticker_i).ticker_i
    /\ error' = AfterOptionsFail(ticker_i).error
    /\ UNCHANGED <<clock, file, current_date, prev_oi_df, current_oi_records,
                   alert_lines, expirations, expiry_i, opt_chain, all_opts, idx,
                   row_locals, current_oi_df, fetchVars, fetch_calls, posts, rows_served, prev_run>>

\* line 128: "if not opt_chain"
SkipsExpiry(chain) == ~chain.ok

\* (mutant) "break": the rest of the ticker's expirations is dropped
NextAfterSkipBreak(ei, exps) == Len(exps) + 1

\* line 129: "continue": the expiry loop goes on with the next expiration
NextAfterSkip(ei, exps) == ei + 1

\* lines 125-138: the wrapper has returned; skip the expiration, or build
\* all_opts and enter the row loop
ReturnToMain ==
    /\ pc = "returned"
    /\ fetch_calls' = Append(fetch_calls, [ticker |-> ticker, expiration |-> expiry, ok |-> opt_chain.ok,
                                         rows |-> Len(opt_chain.calls) + Len(opt_chain.puts)])
    /\ IF SkipsExpiry(opt_chain)
       THEN /\ GoToExpiry(expirations, NextAfterSkip(expiry_i, expirations), ticker_i)
            /\ UNCHANGED <<all_opts, idx>>
       ELSE /\ all_opts' = AllOpts(opt_chain, ticker, expiry)
            /\ idx' = 0
            /\ IF all_opts' = <<>>
               THEN GoToExpiry(expirations, expiry_i + 1, ticker_i)
               ELSE pc' = "rows" /\ EnterFetch /\ UNCHANGED <<expiry_i, ticker_i>>
    /\ UNCHANGED <<clock, file, error, current_date, prev_oi_df, current_oi_records,
                   alert_lines, expirations, opt_chain, row_locals, current_oi_df,
                   options_calls, posts, rows_served, prev_run>>

\* (mutant) today's record is put in front of the baseline
PrevAfterRowUpsert(prev, record) == <<record>> \o prev

\* lines 157-167: the row loop reads prev_oi_df (a mask, a selection) and
\* assigns nothing to it
PrevAfterRow(prev, record) == prev

\* lines 141-194: one row of all_opts
RowStep ==
    /\ pc = "rows"
    /\ LET row == all_opts[idx + 1]
           l == RowLocals(prev_oi_df, ticker, expiry, row)
       IN  /\ row_locals' = l
           /\ current_oi_records' = Append(current_oi_records, OiRecord(current_date, ticker, expiry, l))
           /\ prev_oi_df' = PrevAfterRow(prev_oi_df, OiRecord(current_date, ticker, expiry, l))
           /\ alert_lines' = AlertsAfter(alert_lines, current_date, ticker, expiry, l)
    /\ idx' = idx + 1
    /\ IF idx + 1 < Len(all_opts)
       THEN pc' = "rows" /\ UNCHANGED <<expiry_i, ticker_i, fetchVars>>
       ELSE GoToExpiry(expirations, expiry_i + 1, ticker_i)
    /\ UNCHANGED <<clock, file, error, current_date, expirations,
                   opt_chain, all_opts, current_oi_df, options_calls, fetch_calls, posts, rows_served, prev_run>>

\* (mutant) the alert is sent whether or not there are anomalies
NotifiesAlways(alerts) == TRUE

\* line 200: whether main calls send_discord_alert
Notifies(alerts) == alerts # <<>>

\* lines 197-205: the frame of today's records, and the branch on alert_lines
Aggregate ==
    /\ pc = "ticker"
    /\ ticker_i > Len(TICKERS)
    /\ current_oi_df' = DataFrame(current_oi_records)
    /\ pc' = IF Notifies(alert_lines) THEN "post" ELSE "save"
    /\ UNCHANGED <<clock, file, error, current_date, prev_oi_df, current_oi_records,
                   alert_lines, ticker_i, expirations, expiry_i, opt_chain, all_opts,
                   idx, row_locals, fetchVars, options_calls, fetch_calls, posts, rows_served, prev_run>>

\* (mutant) send_discord_alert without its except clause
SendDiscordAlertNoCatch(outcome) == outcome \in {"204", "429"}

\* send_discord_alert (lines 61-76): a status, a Timeout and a
\* ConnectionError are logged; anything else requests.post raises propagates
SendDiscordAlertReturns(outcome) ==
    outcome \in {"204", "429"} \/ outcome \in {"Timeout", "ConnectionError"}

\* (mutant) main goes on to the save whatever send_discord_alert did
AfterPostAlwaysSave(outcome) == [pc |-> "save", error |-> "none"]

\* where main goes after send_discord_alert
AfterPost(outcome) ==
    IF SendDiscordAlertReturns(outcome)
    THEN [pc |-> "save", error |-> "none"]
    ELSE [pc |-> "failed", error |-> outcome]

\* line 202: the one requests.post of the run
Post(outcome) ==
    /\ pc = "post"
    /\ outcome \in PostOutcomes
    /\ posts' = Append(posts, [message |-> AlertMessage(alert_lines), outcome |-> outcome])
    /\ pc' = AfterPost(outcome).pc
    /\ error' = AfterPost(outcome).error
    /\ UNCHANGED <<clock, file, mainVars, fetchVars, options_calls, fetch_calls, rows_served, prev_run>>

\* (mutant) to_csv in append mode: today's lines after those of the old file
SaveOkAppend ==
    /\ pc = "save"
    /\ file' = [to_csv(current_oi_df) EXCEPT !.lines = file.lines \o @]
    /\ pc' = "done"
    /\ UNCHANGED <<clock, error, mainVars, fetchVars, options_calls, fetch_calls, posts, rows_served, prev_run>>

\* line 208, save_current_oi: the file is overwritten with today's frame
SaveOk ==
    /\ pc = "save"
    /\ file' = to_csv(current_oi_df)
    /\ pc' = "done"
    /\ UNCHANGED <<clock, error, mainVars, fetchVars, options_calls, fetch_calls, posts, rows_served, prev_run>>

\* what a failed to_csv can leave behind: the old file (it could not be
\* opened), a truncated file, or the header and some of the lines
FilesAfterWriteError(old, df) ==
    {old, ZeroBytes}
        \cup {[to_csv(df) EXCEPT !.lines = SubSeq(@, 1, k)] : k \in 0..(Len(df) - 1)}

\* (mutant) the write error is caught and logged, main returns
AfterSaveErrorSwallowed == [pc |-> "done", error |-> "none"]

\* lines 58, 208, 210-211: no try around to_csv, none around save_current_oi,
\* none around main: the OSError ends the process
AfterSaveError == [pc |-> "failed", error |-> "OSError"]

\* line 58 raises (OSError)
SaveError(f) ==
    /\ pc = "save"
    /\ f \in FilesAfterWriteError(file, current_oi_df)
    /\ file' = f
    /\ pc' = AfterSaveError.pc
    /\ error' = AfterSaveError.error
    /\ UNCHANGED <<clock, mainVars, fetchVars, options_calls, fetch_calls, posts, rows_served, prev_run>>

\* what a process killed inside to_csv, before it has written the last line,
\* can leave behind: the old file (not opened yet), a truncated file, or the
\* header and some of the lines
FilesAfterCrash(old, df) ==
    {old, ZeroBytes}
        \cup {[to_csv(df) EXCEPT !.lines = SubSeq(@, 1, k)] : k \in 0..(Len(df) - 1)}

\* line 58: the process is killed (power loss, SIGKILL) while to_csv writes
\* to HISTORICAL_OI_FILE, which it has opened in place
Crash(f) ==
    /\ pc = "save"
    /\ f \in FilesAfterCrash(file, current_oi_df)
    /\ file' = f
    /\ pc' = "failed"
    /\ error' = "SIGKILL"
    /\ UNCHANGED <<clock, mainVars, fetchVars, options_calls, fetch_calls, posts, rows_served, prev_run>>

\* the process has ended; the script is started again the next day
NextRun ==
    /\ pc \in {"done", "failed"}
    /\ clock < MaxDays
    /\ clock' = clock + 1
    /\ pc' = "start"
    /\ error' = "none"
    /\ current_date' = 0
    /\ prev_oi_df' = <<>>
    /\ current_oi_records' = <<>>
    /\ alert_lines' = <<>>
    /\ ticker_i' = 1
    /\ expirations' = <<>>
    /\ expiry_i' = 1
    /\ opt_chain' = None
    /\ all_opts' = <<>>
    /\ idx' = 0
    /\ row_locals' = NoLocals
    /\ current_oi_df' = <<>>
    /\ EnterFetch
    /\ options_calls' = <<>>
    /\ fetch_calls' = <<>>
    /\ posts' = <<>>
    /\ prev_run' = IF pc = "done" THEN RunCompleted(current_oi_df) ELSE NoRun
    /\ UNCHANGED <<file, rows_served>>

Next ==
    \/ LoadBaseline
    \/ \E exps \in ExpirationLists : OptionsOk(exps)
    \/ OptionsFail
    \/ \E chain \in OptionChains : AttemptOk(chain)
    \/ \E e \in FetchErrors : AttemptFail(e)
    \/ Sleep
    \/ ReturnToMain
    \/ RowStep
    \/ Aggregate
    \/ \E outcome \in PostOutcomes : Post(outcome)
    \/ SaveOk
    \/ \E f \in FilesAfterWriteError(file, current_oi_df) : SaveError(f)
    \/ \E f \in FilesAfterCrash(file, current_oi_df) : Crash(f)
    \/ NextRun

Spec == Init /\ [][Next]_vars

\* ------------------------------------------------------------------------
\* The retry wrapper on its own: one call with max_retries = N
\* ------------------------------------------------------------------------
\* main has listed one expiration of the first ticker and calls the wrapper
InitFetch ==
    /\ clock = 1
    /\ file = NoFile
    /\ rows_served = 0
    /\ prev_run = NoRun
    /\ pc = "attempt"
    /\ error = "none"
    /\ current_date = 1
    /\ prev_oi_df = EmptyFrame
    /\ current_oi_records = <<>>
    /\ alert_lines = <<>>
    /\ ticker_i = 1
    /\ expirations = <<1>>
    /\ expiry_i = 1
    /\ opt_chain = None
    /\ all_opts = <<>>
    /\ idx = 0
    /\ row_locals = NoLocals
    /\ current_oi_df = <<>>
    /\ max_retries \in 1..MaxRetriesArg
    /\ attempt = 1
    /\ chain_calls = <<>>
    /\ sleep_calls = 0
    /\ options_calls = <<[ticker |-> TICKERS[1], ok |-> TRUE, expirations |-> <<1>>]>>
    /\ fetch_calls = <<>>
    /\ posts = <<>>

NextFetch ==
    \/ \E chain \in OptionChains : AttemptOk(chain)
    \/ \E e \in FetchErrors : AttemptFail(e)
    \/ Sleep

SpecFetch == InitFetch /\ [][NextFetch]_vars

\* ------------------------------------------------------------------------
\* The row loop on its own: one chain reconciled against a baseline
\* ------------------------------------------------------------------------
\* the records the baseline of the day before can hold: the two contracts of
\* the chain (strike 150 of the first expiration of the first ticker) with an
\* open interest of 0, 1500 or 3000, and three contracts that differ from
\* them in the ticker, in the expiration or in the strike
PriorRecords ==
    [date : {1}, ticker : {TICKERS[1]}, expiration : {1}, strike : {150},
     type : OptionTypes, openInterest : {0, 1500, 3000}]
    \cup
    {[date |-> 1, ticker |-> k[1], expiration |-> k[2], strike |-> k[3],
      type |-> "CALL", openInterest |-> 3000] :
        k \in {<<TICKERS[2], 1, 150>>, <<TICKERS[1], 2, 150>>, <<TICKERS[1], 1, 300>>}}

\* the chains of the first expiration: rows of one strike, any open interest
TodayChains ==
    {c \in ChainsOf([strike : {150}, openInterest : OIValues]) :
        Len(c.calls) + Len(c.puts) \in 1..MaxRows}

\* day 2: the baseline of day 1 is loaded, the chain of the first expiration
\* of the first ticker has been fetched, the row loop starts
InitRows ==
    /\ clock = 2
    /\ \E baseline \in SeqsUpTo(PriorRecords, MaxPrior) :
          /\ file = to_csv(DataFrame(baseline))
          /\ prev_oi_df = load_previous_oi(to_csv(DataFrame(baseline)))
          /\ prev_run = RunCompleted(DataFrame(baseline))
    /\ \E chain \in TodayChains :
          /\ opt_chain = chain
          /\ all_opts = AllOpts(chain, TICKERS[1], 1)
          /\ rows_served = Len(chain.calls) + Len(chain.puts)
    /\ pc = "rows"
    /\ error = "none"
    /\ current_date = 2
    /\ current_oi_records = <<>>
    /\ alert_lines = <<>>
    /\ ticker_i = 1
    /\ expirations = <<1>>
    /\ expiry_i = 1
    /\ idx = 0
    /\ row_locals = NoLocals
    /\ current_oi_df = <<>>
    /\ max_retries = MAX_FETCH_RETRIES
    /\ attempt = 1
    /\ chain_calls = <<>>
    /\ sleep_calls = 0
    /\ options_calls = <<[ticker |-> TICKERS[1], ok |-> TRUE, expirations |-> <<1>>]>>
    /\ fetch_calls = <<[ticker |-> TICKERS[1], expiration |-> 1, ok |-> TRUE,
                        rows |-> Len(all_opts)]>>
    /\ posts = <<>>

NextRows == RowStep

SpecRows == InitRows /\ [][NextRows]_vars

\* ========================================================================
\* Properties
\* ========================================================================
\* every option_chain call of the current invocation raised
AllFailed == \A i \in 1..Len(chain_calls) : chain_calls[i].raised # "none"

\* C1: a fetch that fails on every attempt is attempted exactly max_retries
\* times, with max_retries - 1 delays (none after the last attempt), and the
\* wrapper returns None.
C1_RetryBound ==
    AllFailed =>
        /\ pc \in {"attempt", "sleep", "returned"}
        /\ pc \in {"attempt", "sleep"} => Len(chain_calls) < max_retries
        /\ sleep_calls <= Len(chain_calls)
        /\ pc = "returned" =>
              /\ Len(chain_calls) = max_retries
              /\ sleep_calls = max_retries - 1
              /\ opt_chain = None

C1_Witness ==
    /\ pc = "returned"
    /\ AllFailed
    /\ max_retries = 3
    /\ Len(chain_calls) = 3
    /\ sleep_calls = 2
    /\ opt_chain = None

\* C2: the wrapper returns the chain of the first successful attempt, with no
\* attempt and no delay after it; it returns None only when all max_retries
\* attempts failed; network errors and other exceptions are both retried, none
\* leaves the wrapper.
C2_FirstSuccess ==
    /\ pc # "failed"
    /\ error = "none"
    /\ \A i \in 1..Len(chain_calls) :
          chain_calls[i].raised = "none" =>
              /\ i = Len(chain_calls)
              /\ pc = "returned"
              /\ opt_chain = chain_calls[i].chain
              /\ sleep_calls = i - 1
    /\ (pc = "returned" /\ opt_chain = None) =>
          (Len(chain_calls) = max_retries /\ AllFailed)

C2_Witness ==
    /\ pc = "returned"
    /\ Len(chain_calls) = 3
    /\ chain_calls[1].raised = "ConnectionError"
    /\ chain_calls[2].raised = "Exception"
    /\ chain_calls[3].raised = "none"
    /\ opt_chain = chain_calls[3].chain
    /\ Len(opt_chain.calls) + Len(opt_chain.puts) > 0
    /\ sleep_calls = 2

\* the positions of the baseline records with the composite key of record r
PriorMatches(r) ==
    {j \in 1..Len(prev_oi_df) :
        /\ prev_oi_df[j].ticker = r.ticker
        /\ prev_oi_df[j].expiration = r.expiration
        /\ prev_oi_df[j].strike = r.strike
        /\ prev_oi_df[j].type = r.type}

\* the prior open interest of record r: that of the first baseline record
\* with its key, 0 when there is none
PriorOI(r) ==
    IF PriorMatches(r) = {} THEN 0
    ELSE prev_oi_df[CHOOSE j \in PriorMatches(r) : \A k \in PriorMatches(r) : j <= k].openInterest

\* an anomaly entry was emitted for today's record r
Alerted(r) ==
    \E j \in 1..Len(alert_lines) :
        /\ alert_lines[j].ticker = r.ticker
        /\ alert_lines[j].expiration = r.expiration
        /\ alert_lines[j].strike = r.strike
        /\ alert_lines[j].type = r.type
        /\ alert_lines[j].oi_today = r.openInterest

\* the rows reconciled so far in this run, as recorded
Reconciled == {current_oi_records[i] : i \in 1..Len(current_oi_records)}

\* C3: for a row whose prior open interest is Y > 0, an anomaly entry is
\* emitted iff oi_today - Y >= ABS_CHANGE_THRESHOLD or
\* (oi_today - Y) / Y * 100 >= PERCENT_CHANGE_THRESHOLD.
C3_NonZeroBaseline ==
    \A r \in Reconciled :
        LET Y == PriorOI(r)
            T == r.openInterest
        IN  Y > 0 =>
                (Alerted(r) <=>
                    \/ T - Y >= ABS_CHANGE_THRESHOLD
                    \/ (T - Y) * 100 >= PERCENT_CHANGE_THRESHOLD * Y)

\* a call that doubled from 1500 (percentage rule alone) and a put that grew
\* from 3000 to 5000 (absolute rule alone) are both reported
C3_Witness ==
    /\ Len(current_oi_records) = 2
    /\ Len(alert_lines) = 2
    /\ PriorOI(current_oi_records[1]) = 1500
    /\ current_oi_records[1].openInterest = 3000
    /\ PriorOI(current_oi_records[2]) = 3000
    /\ current_oi_records[2].openInterest = 5000

\* C4: for a row whose prior open interest is 0 (an explicit zero or no
\* matching record) the percentage rule never fires and an anomaly entry is
\* emitted iff oi_today >= ABS_CHANGE_THRESHOLD; the percentage is the
\* infinite sentinel when oi_today > 0 and 0 when oi_today = 0.
C4_ZeroBaseline ==
    /\ \A r \in Reconciled :
          PriorOI(r) = 0 => (Alerted(r) <=> r.openInterest >= ABS_CHANGE_THRESHOLD)
    /\ (Len(current_oi_records) > 0
            /\ PriorOI(current_oi_records[Len(current_oi_records)]) = 0) =>
          /\ row_locals.oi_yesterday = 0
          /\ row_locals.oi_today = current_oi_records[Len(current_oi_records)].openInterest
          /\ ~row_locals.meets_pct_threshold
          /\ row_locals.oi_today > 0 => row_locals.pct_change.inf
          /\ row_locals.oi_today = 0 =>
                (~row_locals.pct_change.inf /\ row_locals.pct_change.num = 0)

\* the baseline holds the row's key with open interest 0, today it is 1500:
\* infinite percentage, no anomaly
C4_Witness ==
    /\ Len(current_oi_records) = 1
    /\ PriorMatches(current_oi_records[1]) # {}
    /\ PriorOI(current_oi_records[1]) = 0
    /\ current_oi_records[1].openInterest = 1500
    /\ row_locals.pct_change.inf
    /\ alert_lines = <<>>

\* C5: with positive thresholds, a row whose open interest is not above its
\* prior open interest never produces an anomaly entry.
C5_DeclineBlind ==
    (ABS_CHANGE_THRESHOLD > 0 /\ PERCENT_CHANGE_THRESHOLD > 0) =>
        \A r \in Reconciled : r.openInterest <= PriorOI(r) => ~Alerted(r)

\* a put falls from 3000 to 0 and nothing is reported
C5_Witness ==
    /\ Len(current_oi_records) = 1
    /\ PriorOI(current_oi_records[1]) = 3000
    /\ current_oi_records[1].openInterest = 0
    /\ row_locals.abs_change = 0 - 3000
    /\ alert_lines = <<>>

\* the baseline file holds exactly today's records: the header, then one line
\* per record, in the order of current_oi_records
Persisted ==
    /\ file.exists
    /\ file.header = Columns
    /\ Len(file.lines) = Len(current_oi_records)
    /\ \A i \in 1..Len(current_oi_records) :
          LET r == current_oi_records[i]
          IN  file.lines[i] = <<r.date, r.ticker, r.expiration, r.strike, r.type, r.openInterest>>

\* the ticker and expiry loops of this run are over
LoopsDone ==
    \/ pc \in {"post", "save", "done"}
    \/ pc = "failed" /\ error \in {"OSError", "SIGKILL", "RequestException"}

\* the dispatch of this run failed the way send_discord_alert reports
DispatchFailed ==
    /\ posts # <<>>
    /\ posts[Len(posts)].outcome \in {"429", "Timeout", "ConnectionError"}

\* C6: when anomalies exist and the dispatch fails by a timeout, a connection
\* error or a non-success status, nothing is raised to main: the run goes on
\* to the save, and a run that ends has persisted today's records.
C6_NotifyFailureNotFatal ==
    DispatchFailed =>
        /\ alert_lines # <<>>
        /\ pc \in {"save", "done", "failed"}
        /\ pc = "failed" => error \in {"OSError", "SIGKILL"}
        /\ pc = "done" => (error = "none" /\ Persisted)

C6_Witness ==
    /\ pc = "done"
    /\ posts # <<>>
    /\ posts[1].outcome = "Timeout"
    /\ alert_lines # <<>>
    /\ Persisted

\* C7: a run without anomalies never calls the notification sink, and when it
\* ends it has persisted today's records.
C7_NoAnomalyNoPost ==
    alert_lines = <<>> =>
        /\ posts = <<>>
        /\ pc # "post"
        /\ pc = "failed" => error \in {"EmptyDataError", "OSError", "SIGKILL"}
        /\ pc = "done" => Persisted

C7_Witness ==
    /\ pc = "done"
    /\ alert_lines = <<>>
    /\ Len(current_oi_records) = 2
    /\ posts = <<>>
    /\ Persisted

\* C8: the sink is called at most once in a run; once the loops are over and
\* the post is behind, a run with anomalies has made exactly one dispatch,
\* whose message holds every anomaly entry of the run, whatever its outcome.
C8_SingleDispatch ==
    /\ Len(posts) <= 1
    /\ posts # <<>> =>
          /\ alert_lines # <<>>
          /\ posts[1].message.lines = alert_lines
          /\ \A r \in Reconciled :
                Alerted(r) =>
                    \E k \in 1..Len(posts[1].message.lines) :
                        /\ posts[1].message.lines[k].ticker = r.ticker
                        /\ posts[1].message.lines[k].expiration = r.expiration
                        /\ posts[1].message.lines[k].type = r.type
                        /\ posts[1].message.lines[k].oi_today = r.openInterest
    /\ (alert_lines # <<>> /\ LoopsDone /\ pc # "post") => Len(posts) = 1

C8_Witness ==
    /\ pc = "done"
    /\ Len(alert_lines) = 2
    /\ Len(posts) = 1
    /\ posts[1].outcome = "429"
    /\ Len(posts[1].message.lines) = 2

\* C9: a ticker whose listing fails contributes no fetch, no record and no
\* anomaly; the failure does not end the run: the tickers are listed one
\* after the other, all of them before the loops are left, and a run that
\* ends has persisted today's records.
C9_ListingFailureSkipsTicker ==
    /\ \A k \in 1..Len(options_calls) :
          /\ k <= Len(TICKERS)
          /\ options_calls[k].ticker = TICKERS[k]
          /\ ~options_calls[k].ok =>
                /\ \A r \in Reconciled : r.ticker # TICKERS[k]
                /\ \A j \in 1..Len(alert_lines) : alert_lines[j].ticker # TICKERS[k]
                /\ \A j \in 1..Len(fetch_calls) : fetch_calls[j].ticker # TICKERS[k]
    /\ LoopsDone => Len(options_calls) = Len(TICKERS)
    /\ pc = "failed" => error \in {"EmptyDataError", "OSError", "SIGKILL", "RequestException"}
    /\ pc = "done" => Persisted

C9_Witness ==
    /\ pc = "done"
    /\ Len(options_calls) = 2
    /\ ~options_calls[1].ok
    /\ options_calls[2].ok
    /\ Len(current_oi_records) = 2
    /\ \A r \in Reconciled : r.ticker = TICKERS[2]
    /\ Persisted

\* the (ticker, expiration) pairs the listings of this run announced, in order
RECURSIVE ListedPairs(_)
ListedPairs(log) ==
    IF log = <<>> THEN <<>>
    ELSE LET last == log[Len(log)]
         IN  ListedPairs(SubSeq(log, 1, Len(log) - 1))
                 \o [i \in 1..Len(last.expirations) |-> <<last.ticker, last.expirations[i]>>]

\* the (ticker, expiration) pairs the wrapper was called for in this run
FetchedPairs ==
    [k \in 1..Len(fetch_calls) |-> <<fetch_calls[k].ticker, fetch_calls[k].expiration>>]

\* the records of this run that stem from one (ticker, expiration)
RecordsOf(t, e) ==
    {i \in 1..Len(current_oi_records) :
        current_oi_records[i].ticker = t /\ current_oi_records[i].expiration = e}

\* C10: a fetch that fails after all retries skips its own expiration only:
\* it contributes no record and does not end the run, and when the loops are
\* over every listed expiration of every ticker has been fetched, and every
\* row of every chain that was returned has been recorded.
C10_FetchFailureSkipsExpiration ==
    /\ \A k \in 1..Len(fetch_calls) :
          ~fetch_calls[k].ok =>
              RecordsOf(fetch_calls[k].ticker, fetch_calls[k].expiration) = {}
    /\ pc = "failed" => error \in {"EmptyDataError", "OSError", "SIGKILL", "RequestException"}
    /\ LoopsDone =>
          /\ FetchedPairs = ListedPairs(options_calls)
          /\ \A k \in 1..Len(fetch_calls) :
                Cardinality(RecordsOf(fetch_calls[k].ticker, fetch_calls[k].expiration))
                    = fetch_calls[k].rows

\* the first expiration of the first ticker is skipped; its second expiration
\* and the second ticker are fetched and recorded
C10_Witness ==
    /\ pc = "done"
    /\ Len(fetch_calls) = 3
    /\ fetch_calls[1].ticker = TICKERS[1] /\ ~fetch_calls[1].ok
    /\ fetch_calls[2].ticker = TICKERS[1] /\ fetch_calls[2].ok /\ fetch_calls[2].rows = 1
    /\ fetch_calls[3].ticker = TICKERS[2] /\ fetch_calls[3].ok /\ fetch_calls[3].rows = 1
    /\ Len(current_oi_records) = 2
    /\ Persisted

\* the composite key of a record or of a row of a frame
KeyOf(r) == <<r.ticker, r.expiration, r.strike, r.type>>

\* C11: a completed run leaves in the baseline file exactly the records it
\* observed, all of them dated today: no record of the prior snapshot is
\* left, so a contract of the prior snapshot that this run did not observe
\* (its ticker or its expiration was skipped) is gone from the file; and the
\* baseline a run loads after a completed run is exactly the frame that run
\* built.
C11_BaselineReplaced ==
    /\ pc = "done" =>
          /\ Persisted
          /\ \A i \in 1..Len(file.lines) : file.lines[i][1] = current_date
          /\ \A j \in 1..Len(prev_oi_df) :
                (\A r \in Reconciled : KeyOf(r) # KeyOf(prev_oi_df[j])) =>
                    \A i \in 1..Len(file.lines) :
                        <<file.lines[i][2], file.lines[i][3], file.lines[i][4], file.lines[i][5]>>
                            # KeyOf(prev_oi_df[j])
    /\ (prev_run.completed /\ pc # "start") =>
          /\ error # "EmptyDataError"
          /\ prev_oi_df = prev_run.snapshot
          /\ \A j \in 1..Len(prev_oi_df) : prev_oi_df[j].date = current_date - 1

\* day 2: the baseline held a contract of the first ticker; the listing of
\* the first ticker failed today, and the file now holds the one record of
\* the second ticker only
C11_Witness ==
    /\ pc = "done"
    /\ clock = 2
    /\ prev_run.completed
    /\ Len(prev_oi_df) = 1
    /\ prev_oi_df[1].ticker = TICKERS[1]
    /\ ~options_calls[1].ok
    /\ Len(file.lines) = 1
    /\ file.lines[1][1] = 2
    /\ file.lines[1][2] = TICKERS[2]

\* load_previous_oi returned a frame without rows: there was no baseline
\* file (day 1, or a later day when no run before it got to write the file),
\* or the file held the header only
FirstRun == pc # "start" /\ error # "EmptyDataError" /\ prev_oi_df = EmptyFrame

\* C12 (as stated): on a first run, where no baseline exists and load returns
\* the empty snapshot, no anomaly entry is emitted for any fetched row.
C12_FirstRunNoAnomalies ==
    (current_date = 1 /\ FirstRun) => alert_lines = <<>>

\* C12 (amended): on a first run every row is reconciled against a prior open
\* interest of 0: the percentage rule never fires, and an anomaly entry is
\* emitted for exactly the rows whose open interest is at least
\* ABS_CHANGE_THRESHOLD, in the order of the rows.
C12_FirstRunAbsRuleOnly ==
    FirstRun =>
        /\ \A r \in Reconciled : Alerted(r) <=> r.openInterest >= ABS_CHANGE_THRESHOLD
        /\ \A j \in 1..Len(alert_lines) :
              /\ alert_lines[j].oi_yesterday = 0
              /\ alert_lines[j].abs_change = alert_lines[j].oi_today
              /\ alert_lines[j].pct_display.inf
        /\ Len(alert_lines) =
              Cardinality({i \in 1..Len(current_oi_records) :
                              current_oi_records[i].openInterest >= ABS_CHANGE_THRESHOLD})
        /\ ~row_locals.meets_pct_threshold

\* day 1, no baseline file: a row of 3000 is reported, a row of 1500 is not
C12_Witness ==
    /\ current_date = 1
    /\ FirstRun
    /\ pc = "done"
    /\ Len(current_oi_records) = 2
    /\ current_oi_records[1].openInterest = 1500
    /\ current_oi_records[2].openInterest = 3000
    /\ Len(alert_lines) = 1
    /\ alert_lines[1].oi_today = 3000
    /\ Len(posts) = 1

\* the process is between the load and the save: the file is still the one
\* load_previous_oi was called on
FileAsLoaded ==
    \/ pc \in {"ticker", "attempt", "sleep", "returned", "rows", "post", "save"}
    \/ pc = "failed" /\ error \in {"EmptyDataError", "RequestException"}

\* the baseline file is there and is not a CSV table of the six columns
Malformed(f) == f.exists /\ f.header # Columns

\* C13: a missing or malformed prior baseline is never fatal: in both cases
\* load substitutes an empty table and the run proceeds to reconciliation and
\* persistence.
C13_BadBaselineNotFatal ==
    (FileAsLoaded /\ (~file.exists \/ Malformed(file))) =>
        /\ prev_oi_df = EmptyFrame
        /\ error # "EmptyDataError"
        /\ ~(pc = "failed" /\ Len(options_calls) < Len(TICKERS))

\* C14: a write error while the new baseline is saved is fatal: it is not
\* swallowed, the process ends with the OSError at the save, after the loops
\* and the dispatch, and a run that ends in success has written the whole of
\* today's frame.
C14_WriteErrorFatal ==
    /\ error = "OSError" =>
          /\ pc = "failed"
          /\ Len(options_calls) = Len(TICKERS)
          /\ alert_lines # <<>> => Len(posts) = 1
    /\ pc = "done" => (error = "none" /\ Persisted)

\* the write fails after the first of two lines: the process has failed, the
\* file holds the header and one line
C14_Witness ==
    /\ pc = "failed"
    /\ error = "OSError"
    /\ Len(current_oi_df) = 2
    /\ file.header = Columns
    /\ Len(file.lines) = 1
    /\ ~Persisted

\* the file reads as the whole of the snapshot this run loaded (or there is
\* no file, as when it loaded nothing)
HoldsPriorSnapshot ==
    IF file.exists
    THEN ~Malformed(file) /\ read_csv(file) = prev_oi_df
    ELSE prev_oi_df = EmptyFrame

\* the file holds the whole of the snapshot this run built
HoldsNewSnapshot == file = to_csv(current_oi_df)

\* C15: the save is atomic with respect to crashes: after a crash at any
\* point of the save, the file the next run loads holds the complete prior
\* snapshot or the complete new one, never a part of one.
C15_SaveAtomic ==
    (pc = "failed" /\ error = "SIGKILL") => (HoldsPriorSnapshot \/ HoldsNewSnapshot)

\* the (ticker, expiration) of the rows of the successful fetches of this
\* run, one entry per row, in the order of the fetches
RECURSIVE FetchedRowKeys(_)
FetchedRowKeys(log) ==
    IF log = <<>> THEN <<>>
    ELSE LET last == log[Len(log)]
         IN  FetchedRowKeys(SubSeq(log, 1, Len(log) - 1))
                 \o [i \in 1..(IF last.ok THEN last.rows ELSE 0) |->
                        <<last.ticker, last.expiration>>]

\* the rows of the chain in hand in the order of processing: the calls, then
\* the puts
ChainRows ==
    [i \in 1..Len(opt_chain.calls) |->
        [type |-> "CALL", strike |-> opt_chain.calls[i].strike,
         openInterest |-> opt_chain.calls[i].openInterest]]
    \o
    [i \in 1..Len(opt_chain.puts) |->
        [type |-> "PUT", strike |-> opt_chain.puts[i].strike,
         openInterest |-> opt_chain.puts[i].openInterest]]

\* the rows of the chain in hand that the row loop has not reached yet
RowsToGo == IF pc = "rows" THEN Len(all_opts) - idx ELSE 0

\* C16: every row of every fetched chain is appended exactly once to the
\* current snapshot, anomalous or not: the snapshot is the sequence of the
\* fetched rows in processing order, chain after chain, the calls of a chain
\* before its puts; the anomaly entries are never more than the records.
C16_EveryRowRecordedOnce ==
    /\ pc # "returned" =>
          /\ Len(current_oi_records) + RowsToGo = Len(FetchedRowKeys(fetch_calls))
          /\ \A i \in 1..Len(current_oi_records) :
                <<current_oi_records[i].ticker, current_oi_records[i].expiration>>
                    = FetchedRowKeys(fetch_calls)[i]
    /\ (pc # "returned" /\ opt_chain.ok /\ idx > 0) =>
          /\ idx <= Len(ChainRows)
          /\ idx <= Len(current_oi_records)
          /\ \A i \in 1..idx :
                LET r == current_oi_records[Len(current_oi_records) - idx + i]
                IN  /\ r.type = ChainRows[i].type
                    /\ r.strike = ChainRows[i].strike
                    /\ r.openInterest = ChainRows[i].openInterest
                    /\ r.date = current_date
    /\ Len(alert_lines) <= Len(current_oi_records)
    /\ pc \in {"save", "done"} => current_oi_df = DataFrame(current_oi_records)

\* a chain of one call of 1500 and one put of 3000: two records, the call
\* first, one of them an anomaly
C16_Witness ==
    /\ pc = "done"
    /\ Len(fetch_calls) >= 1
    /\ Len(current_oi_records) = 2
    /\ current_oi_records[1].type = "CALL"
    /\ current_oi_records[1].openInterest = 1500
    /\ current_oi_records[2].type = "PUT"
    /\ current_oi_records[2].openInterest = 3000
    /\ current_oi_records[1].expiration = current_oi_records[2].expiration
    /\ current_oi_records[1].ticker = current_oi_records[2].ticker
    /\ Len(alert_lines) = 1

\* what the two rules give for today's record r and the prior snapshot alone
Anomalous(r) ==
    LET Y == PriorOI(r)
        T == r.openInterest
    IN  \/ T - Y >= ABS_CHANGE_THRESHOLD
        \/ Y # 0 /\ (T - Y) * 100 >= PERCENT_CHANGE_THRESHOLD * Y

\* the anomaly entries of the run, by record
AlertedRecords ==
    [j \in 1..Len(alert_lines) |->
        [date |-> alert_lines[j].date, ticker |-> alert_lines[j].ticker,
         expiration |-> alert_lines[j].expiration, strike |-> alert_lines[j].strike,
         type |-> alert_lines[j].type, openInterest |-> alert_lines[j].oi_today]]

\* C17: from the load to the end of the run no step changes prev_oi_df, and
\* the classification of a row depends on the row and on prev_oi_df only, not
\* on the rows before it: the anomaly entries are the records the rules
\* select, in order, each one compared with the prior snapshot.
C17_PriorReadOnly ==
    /\ [][(pc # "start" /\ pc' # "start") => prev_oi_df' = prev_oi_df]_vars
    /\ [](/\ AlertedRecords = SelectSeq(current_oi_records, Anomalous)
          /\ \A j \in 1..Len(alert_lines) :
                alert_lines[j].oi_yesterday = PriorOI(AlertedRecords[j])
          /\ (prev_run.completed /\ pc # "start") => prev_oi_df = prev_run.snapshot)

\* day 2: the baseline holds a contract with 1500; the chain brings it with
\* 3000: the row is an anomaly against 1500, the baseline is as it was loaded
C17_Witness ==
    /\ pc = "done"
    /\ prev_run.completed
    /\ Len(prev_oi_df) = 1
    /\ prev_oi_df[1].openInterest = 1500
    /\ prev_oi_df = prev_run.snapshot
    /\ Len(current_oi_records) = 1
    /\ KeyOf(current_oi_records[1]) = KeyOf(prev_oi_df[1])
    /\ current_oi_records[1].openInterest = 3000
    /\ Len(alert_lines) = 1
    /\ alert_lines[1].oi_yesterday = 1500

\* the positions of today's records with the composite key of record r
TodayMatches(r) == {i \in 1..Len(current_oi_records) : KeyOf(current_oi_records[i]) = KeyOf(r)}

\* the open interest the snapshot built so far gives for the key of r once
\* it is saved and loaded as a baseline
NextBaselineOI(r) ==
    OiYesterday(load_previous_oi(to_csv(DataFrame(current_oi_records))),
                r.ticker, r.expiration, r.strike, r.type)

\* the lookup in the prior snapshot gave the row just processed the open
\* interest of the first record with its key, 0 when there is none
LookupFirstMatch ==
    Len(current_oi_records) > 0 =>
        row_locals.oi_yesterday = PriorOI(current_oi_records[Len(current_oi_records)])

\* C18 (as stated): when the fetched rows hold a key more than once, the last
\* row wins in the current snapshot (the snapshot gives the key the open
\* interest of the last row with it), and the lookup in the prior snapshot
\* returns the open interest of the first matching record, 0 without one.
C18_LastRowWins ==
    /\ LookupFirstMatch
    /\ \A r \in Reconciled :
          LET last == CHOOSE i \in TodayMatches(r) : \A k \in TodayMatches(r) : k <= i
          IN  NextBaselineOI(r) = current_oi_records[last].openInterest

\* C18 (amended): when the fetched rows hold a key more than once, every one
\* of the rows is accumulated, in order (no tie-break, nothing is dropped or
\* overwritten), so that as a baseline the snapshot gives the key the open
\* interest of the first row with it; the lookup in the prior snapshot
\* returns the open interest of the first matching record, 0 without one.
C18_AllRowsKeptFirstMatch ==
    /\ LookupFirstMatch
    /\ Len(current_oi_records) = idx
    /\ \A i \in 1..idx :
          /\ KeyOf(current_oi_records[i]) = KeyOf(all_opts[i])
          /\ current_oi_records[i].openInterest = all_opts[i].openInterest
    /\ \A r \in Reconciled :
          LET first == CHOOSE i \in TodayMatches(r) : \A k \in TodayMatches(r) : i <= k
          IN  NextBaselineOI(r) = current_oi_records[first].openInterest

\* the baseline holds the key of the call twice, with 1500 and then 3000;
\* the chain holds the call twice, with 3000 and then 5000: both rows are
\* compared with 1500, both are recorded, and the snapshot gives 3000
C18_Witness ==
    /\ Len(prev_oi_df) = 2
    /\ KeyOf(prev_oi_df[1]) = KeyOf(prev_oi_df[2])
    /\ prev_oi_df[1].openInterest = 1500
    /\ prev_oi_df[2].openInterest = 3000
    /\ Len(current_oi_records) = 2
    /\ KeyOf(current_oi_records[1]) = KeyOf(prev_oi_df[1])
    /\ KeyOf(current_oi_records[2]) = KeyOf(prev_oi_df[1])
    /\ current_oi_records[1].openInterest = 3000
    /\ current_oi_records[2].openInterest = 5000
    /\ row_locals.oi_yesterday = 1500
    /\ Len(alert_lines) = 2
    /\ NextBaselineOI(current_oi_records[2]) = 3000

\* the process has got to save_current_oi (it is about to write, has written,
\* or has failed or was killed writing)
AtOrPastSave ==
    \/ pc \in {"save", "done"}
    \/ pc = "failed" /\ error \in {"OSError", "SIGKILL"}

\* no line of the file is of today: this run has written nothing to it
FileUntouched == \A i \in 1..Len(file.lines) : file.lines[i][1] # current_date

\* C19: the dispatch, when there is one, is over before the save starts, and
\* the save starts only when every ticker and every listed expiration has
\* been processed; the file changes in the save step only; a dispatch that
\* raises anything but a timeout or a connection error ends the run there,
\* and the baseline file is left as the run found it.
C19_NotifyBeforeSave ==
    /\ [][file' # file => (pc = "save" /\ pc' \in {"done", "failed"})]_vars
    /\ [](AtOrPastSave =>
            /\ Len(options_calls) = Len(TICKERS)
            /\ FetchedPairs = ListedPairs(options_calls)
            /\ Len(current_oi_records) = Len(FetchedRowKeys(fetch_calls))
            /\ alert_lines # <<>> =>
                  /\ Len(posts) = 1
                  /\ SendDiscordAlertReturns(posts[1].outcome)
                  /\ posts[1].message.lines = alert_lines)
    /\ []((posts # <<>> /\ posts[1].outcome = "RequestException") =>
            /\ pc = "failed"
            /\ error = "RequestException"
            /\ ~AtOrPastSave
            /\ FileUntouched
            /\ HoldsPriorSnapshot)
    /\ [](pc = "post" => FileUntouched)

\* day 2: the baseline of day 1 holds one record; today's row is an anomaly,
\* the post raises a RequestException: the run has failed and the file still
\* holds the record of day 1
C19_Witness ==
    /\ clock = 2
    /\ pc = "failed"
    /\ error = "RequestException"
    /\ Len(posts) = 1
    /\ Len(current_oi_records) = 1
    /\ Len(file.lines) = 1
    /\ file.lines[1][1] = 1
    /\ read_csv(file) = prev_oi_df

\* the option_chain calls of this run are at most MAX_FETCH_RETRIES for each
\* expiration listed: at most that many in each finished call of the wrapper
\* and in the one in hand, and one call of the wrapper for a listed expiration
AttemptBound ==
    /\ Len(chain_calls) <= MAX_FETCH_RETRIES
    /\ max_retries = MAX_FETCH_RETRIES
    /\ Len(fetch_calls) + (IF pc \in {"attempt", "sleep", "returned"} THEN 1 ELSE 0)
          <= Len(ListedPairs(options_calls))
    /\ MAX_FETCH_RETRIES * Len(fetch_calls) + Len(chain_calls)
          <= MAX_FETCH_RETRIES * Len(ListedPairs(options_calls))

\* C20: whatever the listings and the fetches do, a run gets to the persist
\* step and ends (a process that has ended has got to save_current_oi), and
\* its fetch attempts are at most MAX_FETCH_RETRIES for each listed
\* expiration.
C20_ReachesPersist ==
    /\ pc = "failed" => AtOrPastSave
    /\ AttemptBound

====
